---- MODULE Spec2Model ----
(***************************************************************************)
(* The FedCustom strategy of the "build a strategy from scratch" tutorial  *)
(* and the round loop that drives it.                                      *)
(*                                                                         *)
(* Numbers.  Tensor elements, losses and fractions are floats in the code; *)
(* here they are exact rationals <<numerator, denominator>> in lowest      *)
(* terms, so float rounding is outside the model.  The fractions used are  *)
(* those of the tutorials (1.0, 0.3, 0.5, 0.05, 0.025, 0.0), for which     *)
(* int(a * fraction) in double arithmetic equals the exact floor for every *)
(* a up to MaxAvailable.                                                   *)
(***************************************************************************)
EXTENDS Integers, Sequences, FiniteSets, TLC

(***************************** bounds ***************************************)
\* number of client ids the registry can hold in the round loop
MaxClients == 3
\* largest num_available_clients handed to num_fit_clients / num_evaluation_clients
MaxAvailable == 1000
\* longest results list handed to aggregate_fit / aggregate_evaluate on its own
MaxResults == 3
\* largest sample handed to the config assignment of configure_fit on its own
MaxSample == 10

\* largest constant by which the sample counts of a results list are multiplied
MaxScale == 3

\* ServerConfig(num_rounds=3)
NumRounds == 3

Clients == 1..MaxClients

(***************************** rationals ************************************)
Abs(x) == IF x < 0 THEN -x ELSE x

\* Each operator below binds its arguments once (x \in {<<...>>}), so that an
\* argument expression is evaluated once however often the body uses it.
RECURSIVE GCD(_, _)
GCD(a, b) ==
    CHOOSE g \in {IF x[2] = 0 THEN x[1] ELSE GCD(x[2], x[1] % x[2]) : x \in {<<a, b>>}} :
        TRUE

\* n/d in lowest terms, d > 0
Rat(n, d) ==
    CHOOSE r \in {LET g == GCD(Abs(x[1]), x[2]) IN <<x[1] \div g, x[2] \div g>> :
                    x \in {<<n, d>>}} : TRUE

RatAdd(p, q) ==
    CHOOSE r \in {Rat(x[1][1] * x[2][2] + x[2][1] * x[1][2], x[1][2] * x[2][2]) :
                    x \in {<<p, q>>}} : TRUE

\* k * p for an integer k
RatScale(k, p) ==
    CHOOSE r \in {Rat(x[1] * x[2][1], x[2][2]) : x \in {<<k, p>>}} : TRUE

\* p / k for an integer k > 0
RatDivInt(p, k) ==
    CHOOSE r \in {Rat(x[1][1], x[1][2] * x[2]) : x \in {<<p, k>>}} : TRUE

\* int(k * p): truncation toward zero of a non-negative product
IntOfProduct(k, p) == (k * p[1]) \div p[2]

Max(a, b) == IF a >= b THEN a ELSE b

(***************************** values ***************************************)
None == [kind |-> "none"]

\* an exception leaving the operation
Raise(exc) == [kind |-> "raise", exc |-> exc]

\* a returned tuple (value, metrics)
Return(value, metrics) == [kind |-> "return", value |-> value, metrics |-> metrics]

\* the empty dict {}
EmptyDict == <<>>

\* the serialised form of one ndarray
ndarray_to_bytes(ndarray) == [bytes |-> ndarray]

bytes_to_ndarray(tensor) == tensor.bytes

ndarrays_to_parameters(ndarrays) ==
    [kind |-> "Parameters",
     tensors |-> [i \in DOMAIN ndarrays |-> ndarray_to_bytes(ndarrays[i])],
     tensor_type |-> "numpy.ndarray"]

parameters_to_ndarrays(parameters) ==
    [i \in DOMAIN parameters.tensors |-> bytes_to_ndarray(parameters.tensors[i])]

FitIns(parameters, config) == [parameters |-> parameters, config |-> config]

EvaluateIns(parameters, config) == [parameters |-> parameters, config |-> config]

FitRes(parameters, num_examples) ==
    [parameters |-> parameters, num_examples |-> num_examples]

EvaluateRes(loss, num_examples) == [loss |-> loss, num_examples |-> num_examples]

\* a flat tensor of integers as a tensor of rationals
Tensor(ints) == [k \in DOMAIN ints |-> <<ints[k], 1>>]

(***************************** client registry ******************************)
\* num_available(): the number of clients currently registered
num_available(client_manager) == Cardinality(client_manager)

\* The sequences of k distinct members of S.
DistinctSeqs(S, k) ==
    {s \in [1..k -> S] : \A i, j \in 1..k : i # j => s[i] # s[j]}

\* sample(num_clients, min_num_clients): the possible returns.  Too few clients
\* for the required minimum, or for the requested number, is the empty
\* selection; otherwise exactly num_clients distinct handles in any order.
sample(client_manager, num_clients, min_num_clients) ==
    IF num_available(client_manager) < min_num_clients
       \/ num_available(client_manager) < num_clients
    THEN {<<>>}
    ELSE DistinctSeqs(client_manager, num_clients)

(***************************** aggregation functions ************************)
RECURSIVE SumExamples(_)
SumExamples(weights_results) ==
    IF weights_results = <<>> THEN 0
    ELSE weights_results[1][2] + SumExamples(Tail(weights_results))

\* the shape of a list of flat tensors: its tensor count and each length
Shape(ndarrays) == [i \in DOMAIN ndarrays |-> Len(ndarrays[i])]

SameShapes(weights_results) ==
    \A j \in DOMAIN weights_results :
        Shape(weights_results[j][1]) = Shape(weights_results[1][1])

\* sum over the results j = 1..n of num_examples_j * element [i][k]
RECURSIVE WeightedElementSum(_, _, _, _)
WeightedElementSum(weights_results, i, k, n) ==
    IF n = 0 THEN <<0, 1>>
    ELSE RatAdd(WeightedElementSum(weights_results, i, k, n - 1),
                RatScale(weights_results[n][2], weights_results[n][1][i][k]))

MinOver(S) == CHOOSE m \in S : \A x \in S : m <= x

\* aggregate as a zip over the tensor lists would compute it: the tensors and
\* elements beyond the shortest are dropped instead of being an error
aggregate_truncating(weights_results) ==
    IF weights_results = <<>>
    THEN {Raise("EmptyInput"), [kind |-> "ndarrays", value |-> <<>>]}
    ELSE IF SumExamples(weights_results) = 0
    THEN {Raise("ZeroWeight")}
    ELSE LET total == SumExamples(weights_results)
             count == MinOver({Len(weights_results[j][1]) : j \in DOMAIN weights_results})
             size(i) == MinOver({Len(weights_results[j][1][i]) : j \in DOMAIN weights_results})
         IN {[kind |-> "ndarrays",
              value |-> [i \in 1..count |->
                          [k \in 1..size(i) |->
                            RatDivInt(WeightedElementSum(weights_results, i, k,
                                                         Len(weights_results)),
                                      total)]]]}

\* aggregate(results): the possible outcomes of the weighted average of
\* (ndarrays, num_examples) pairs.  An empty list is outside its contract
\* (len > 0 is required): it fails or yields an empty tensor list.
aggregate(weights_results) ==
    IF weights_results = <<>>
    THEN {Raise("EmptyInput"), [kind |-> "ndarrays", value |-> <<>>]}
    ELSE IF ~SameShapes(weights_results)
    THEN {Raise("ShapeMismatch")}
    ELSE IF SumExamples(weights_results) = 0
    THEN {Raise("ZeroWeight")}
    ELSE LET total == SumExamples(weights_results)
             first == weights_results[1][1]
         IN {[kind |-> "ndarrays",
              value |-> [i \in DOMAIN first |->
                          [k \in DOMAIN first[i] |->
                            RatDivInt(WeightedElementSum(weights_results, i, k,
                                                         Len(weights_results)),
                                      total)]]]}

RECURSIVE SumWeights(_)
SumWeights(pairs) ==
    IF pairs = <<>> THEN 0 ELSE pairs[1][1] + SumWeights(Tail(pairs))

RECURSIVE SumWeightedLoss(_)
SumWeightedLoss(pairs) ==
    IF pairs = <<>> THEN <<0, 1>>
    ELSE RatAdd(RatScale(pairs[1][1], pairs[1][2]), SumWeightedLoss(Tail(pairs)))

\* weighted_loss_avg(results) over (num_examples, loss) pairs
weighted_loss_avg(pairs) ==
    IF SumWeights(pairs) = 0
    THEN Raise("ZeroWeight")
    ELSE [kind |-> "loss", value |-> RatDivInt(SumWeightedLoss(pairs), SumWeights(pairs))]

(***************************** FedCustom ************************************)
\* FedCustom(fraction_fit, fraction_evaluate, min_fit_clients,
\*           min_evaluate_clients, min_available_clients)
FedCustom(ff, fe, mf, me, ma) ==
    [fraction_fit |-> ff, fraction_evaluate |-> fe, min_fit_clients |-> mf,
     min_evaluate_clients |-> me, min_available_clients |-> ma]

Min(a, b) == IF a <= b THEN a ELSE b

\* num_fit_clients taking the smaller of the two counts
num_fit_clients_min(self, num_available_clients) ==
    LET num_clients == IntOfProduct(num_available_clients, self.fraction_fit)
    IN <<Min(num_clients, self.min_fit_clients), self.min_available_clients>>

\* num_fit_clients requiring min_fit_clients instead of min_available_clients
num_fit_clients_requiring_min_fit(self, num_available_clients) ==
    LET num_clients == IntOfProduct(num_available_clients, self.fraction_fit)
    IN <<Max(num_clients, self.min_fit_clients), self.min_fit_clients>>

\* (sample size, required number of clients)
num_fit_clients(self, num_available_clients) ==
    LET num_clients == IntOfProduct(num_available_clients, self.fraction_fit)
    IN <<Max(num_clients, self.min_fit_clients), self.min_available_clients>>

\* num_evaluation_clients computed from the fit knobs
num_evaluation_clients_with_fit_knobs(self, num_available_clients) ==
    LET num_clients == IntOfProduct(num_available_clients, self.fraction_fit)
    IN <<Max(num_clients, self.min_fit_clients), self.min_available_clients>>

num_evaluation_clients(self, num_available_clients) ==
    LET num_clients == IntOfProduct(num_available_clients, self.fraction_evaluate)
    IN <<Max(num_clients, self.min_evaluate_clients), self.min_available_clients>>

standard_config == [lr |-> <<1, 1000>>]

higher_lr_config == [lr |-> <<3, 1000>>]

\* fit_configurations with the split one client late (idx <= half_clients)
fit_configurations_split_late(parameters, clients) ==
    LET n_clients == Len(clients)
        half_clients == n_clients \div 2
    IN [idx \in 1..n_clients |->
          IF idx - 1 <= half_clients
          THEN <<clients[idx], FitIns(parameters, standard_config)>>
          ELSE <<clients[idx], FitIns(parameters, higher_lr_config)>>]

\* fit_configurations built from two halves of half_clients clients each, so
\* that the last client of an odd sample gets no instruction
fit_configurations_two_equal_halves(parameters, clients) ==
    LET n_clients == Len(clients)
        half_clients == n_clients \div 2
    IN [idx \in 1..(2 * half_clients) |->
          IF idx - 1 < half_clients
          THEN <<clients[idx], FitIns(parameters, standard_config)>>
          ELSE <<clients[idx], FitIns(parameters, higher_lr_config)>>]

\* fit_configurations with the two configs exchanged: the first half_clients
\* clients get the higher learning rate
fit_configurations_higher_lr_first(parameters, clients) ==
    LET n_clients == Len(clients)
        half_clients == n_clients \div 2
    IN [idx \in 1..n_clients |->
          IF idx - 1 < half_clients
          THEN <<clients[idx], FitIns(parameters, higher_lr_config)>>
          ELSE <<clients[idx], FitIns(parameters, standard_config)>>]

\* the custom configs of configure_fit: one (client, FitIns) per sampled client
fit_configurations(parameters, clients) ==
    LET n_clients == Len(clients)
        half_clients == n_clients \div 2
    IN [idx \in 1..n_clients |->
          IF idx - 1 < half_clients
          THEN <<clients[idx], FitIns(parameters, standard_config)>>
          ELSE <<clients[idx], FitIns(parameters, higher_lr_config)>>]

\* configure_fit sparing the first round the higher learning rate
configure_fit_warming_up(self, server_round, parameters, client_manager) ==
    LET nums == num_fit_clients(self, num_available(client_manager))
    IN {IF server_round = 1
        THEN [idx \in DOMAIN clients |-> <<clients[idx], FitIns(parameters, standard_config)>>]
        ELSE fit_configurations(parameters, clients) :
           clients \in sample(client_manager, nums[1], nums[2])}

\* configure_fit: the lists it may return, one for each possible sample
configure_fit(self, server_round, parameters, client_manager) ==
    LET nums == num_fit_clients(self, num_available(client_manager))
    IN {fit_configurations(parameters, clients) :
           clients \in sample(client_manager, nums[1], nums[2])}

\* weights_results with every result counted once, whatever its num_examples
weights_results_unweighted(results) ==
    [j \in DOMAIN results |->
       <<parameters_to_ndarrays(results[j][2].parameters), 1>>]

\* weights_results with each result's tensors already multiplied by its
\* num_examples, so that the average weights them twice
weights_results_weighted_twice(results) ==
    [j \in DOMAIN results |->
       LET ndarrays == parameters_to_ndarrays(results[j][2].parameters)
       IN <<[i \in DOMAIN ndarrays |->
               [k \in DOMAIN ndarrays[i] |->
                  RatScale(results[j][2].num_examples, ndarrays[i][k])]],
            results[j][2].num_examples>>]

\* weights_results with the first result of the list counted twice
weights_results_first_counted_twice(results) ==
    [j \in DOMAIN results |->
       <<parameters_to_ndarrays(results[j][2].parameters),
         IF j = 1 THEN 2 * results[j][2].num_examples ELSE results[j][2].num_examples>>]

\* weights_results with one example more than each result reports
weights_results_one_more_example(results) ==
    [j \in DOMAIN results |->
       <<parameters_to_ndarrays(results[j][2].parameters), results[j][2].num_examples + 1>>]

\* the (ndarrays, num_examples) pairs aggregate_fit builds from the results
weights_results_of(results) ==
    [j \in DOMAIN results |->
       <<parameters_to_ndarrays(results[j][2].parameters), results[j][2].num_examples>>]

\* aggregate_fit giving up as soon as one client failed
aggregate_fit_failing_on_failures(self, server_round, results, failures) ==
    IF failures # <<>>
    THEN {Raise("ClientFailure")}
    ELSE {IF o.kind = "raise" THEN o
          ELSE Return(ndarrays_to_parameters(o.value), EmptyDict) :
             o \in aggregate(weights_results_of(results))}

\* aggregate_fit: the possible outcomes
aggregate_fit(self, server_round, results, failures) ==
    {IF o.kind = "raise" THEN o
     ELSE Return(ndarrays_to_parameters(o.value), EmptyDict) :
        o \in aggregate(weights_results_of(results))}

\* the client/config pairs of configure_evaluate: one shared EvaluateIns
evaluate_instructions(parameters, clients) ==
    LET evaluate_ins == EvaluateIns(parameters, EmptyDict)
    IN [idx \in DOMAIN clients |-> <<clients[idx], evaluate_ins>>]

\* configure_evaluate: the lists it may return, one for each possible sample
configure_evaluate(self, server_round, parameters, client_manager) ==
    IF self.fraction_evaluate = <<0, 1>>
    THEN {<<>>}
    ELSE LET nums == num_evaluation_clients(self, num_available(client_manager))
         IN {evaluate_instructions(parameters, clients) :
                clients \in sample(client_manager, nums[1], nums[2])}

\* Objects are passed by reference.  Every FitIns of one configure_fit call
\* holds the parameters object the call was given, and the FitIns of one group
\* hold one config dict; every client of one configure_evaluate call gets the
\* one EvaluateIns object.  So the holder idx of an instruction that changes
\* the object in its field in place changes it for every holder of that object:
\* the caller's parameters and what each instruction then shows.
mutated_in_place(parameters, instructions, idx, field, value) ==
    [global |-> IF field = "parameters" THEN value ELSE parameters,
     received |->
        [i \in DOMAIN instructions |->
           IF field = "parameters"
           THEN [instructions[i][2] EXCEPT !.parameters = value]
           ELSE IF instructions[i][2].config = instructions[idx][2].config
           THEN [instructions[i][2] EXCEPT !.config = value]
           ELSE instructions[i][2]]]

\* loss pairs with every loss counted once, whatever its num_examples
loss_pairs_unweighted(results) ==
    [j \in DOMAIN results |-> <<1, results[j][2].loss>>]

\* loss pairs with every loss doubled
loss_pairs_doubled_loss(results) ==
    [j \in DOMAIN results |->
       <<results[j][2].num_examples, RatScale(2, results[j][2].loss)>>]

\* the (num_examples, loss) pairs aggregate_evaluate hands to weighted_loss_avg
loss_pairs_of(results) ==
    [j \in DOMAIN results |-> <<results[j][2].num_examples, results[j][2].loss>>]

\* aggregate_evaluate without its check of an empty results list
aggregate_evaluate_unguarded(self, server_round, results, failures) ==
    LET loss_aggregated == weighted_loss_avg(loss_pairs_of(results))
    IN IF loss_aggregated.kind = "raise" THEN loss_aggregated
       ELSE Return(loss_aggregated, EmptyDict)

aggregate_evaluate(self, server_round, results, failures) ==
    IF results = <<>>
    THEN Return(None, EmptyDict)
    ELSE LET loss_aggregated == weighted_loss_avg(loss_pairs_of(results))
         IN IF loss_aggregated.kind = "raise" THEN loss_aggregated
            ELSE Return(loss_aggregated, EmptyDict)

\* a centralized evaluation that reports a loss of zero and no metrics
evaluate_zero_loss(self, server_round, parameters) ==
    Return([kind |-> "loss", value |-> <<0, 1>>], EmptyDict)

\* the centralized evaluation hook
evaluate(self, server_round, parameters) == None

(***************************** on_fit_config_fn *****************************)
\* fit_config(server_round): the training configuration dict of a round
fit_config(server_round) ==
    [server_round |-> server_round,
     local_epochs |-> IF server_round < 2 THEN 1 ELSE 2]

(***************************** state ****************************************)
VARIABLES
    strategy,        \* the FedCustom instance: its five knobs
    client_manager,  \* the registry: the set of currently available clients
    pc,              \* the driver's position in the session
    server_round,    \* the current round number (0 before round 1)
    parameters,      \* the driver's global parameters (None before initialisation)
    sampled,         \* the latest request to the registry and what it returned
    instructions,    \* the (client, ins) list of the current configure_* call
    results,         \* the (client, res) list collected in the current phase
    failures,        \* the failures collected in the current phase
    fit_arg,         \* the parameters passed to the round's configure_fit
    fit_ret,         \* the outcome of the latest aggregate_fit and its round
    central_ret,     \* the return of the latest centralized evaluate
    eval_ret,        \* the outcome of the latest aggregate_evaluate
    calls,           \* the operations invoked so far in the current round, in order
    probe,           \* the arguments of one operation applied on its own
    probe_out        \* what that operation returned

vars == <<strategy, client_manager, pc, server_round, parameters, sampled, instructions,
          results, failures, fit_arg, fit_ret, central_ret, eval_ret, calls,
          probe, probe_out>>

Pending == [kind |-> "pending"]

(***************************** inputs ***************************************)
\* the strategies of the sessions explored: FedCustom() with its defaults, and
\* knobs in the style of the strategy tutorial
Strategies ==
    {FedCustom(<<1, 1>>, <<1, 1>>, 2, 2, 2),
     FedCustom(<<3, 10>>, <<3, 10>>, 3, 3, MaxClients),
     FedCustom(<<1, 2>>, <<0, 1>>, 1, 1, 1),
     FedCustom(<<1, 2>>, <<0, 1>>, 1, 3, 1),
     FedCustom(<<1, 2>>, <<1, 2>>, 1, 2, 3),
     FedCustom(<<1, 2>>, <<1, 1>>, 3, 1, 1)}

\* get_parameters(Net()): the weights of a fresh network
InitialNdarrays == <<Tensor(<<0, 0>>), Tensor(<<0>>)>>

\* what a client may answer to fit: updated weights and its number of examples
ClientFitRes ==
    {FitRes(ndarrays_to_parameters(<<Tensor(<<1, 3>>), Tensor(<<2>>)>>), 1),
     FitRes(ndarrays_to_parameters(<<Tensor(<<5, -1>>), Tensor(<<4>>)>>), 3)}

\* what a client may answer to evaluate: its loss and its number of examples
ClientEvaluateRes ==
    {EvaluateRes(<<2, 1>>, 10), EvaluateRes(<<4, 1>>, 30)}

\* a client that timed out, disconnected or raised
Failure(client) == [client |-> client, error |-> "ClientFailure"]

(***************************** the session **********************************)
probes == <<probe, probe_out>>

Init ==
    /\ strategy \in Strategies
    /\ client_manager = Clients
    /\ pc = "initialize_parameters"
    /\ server_round = 0
    /\ parameters = None
    /\ sampled = Pending
    /\ instructions = <<>>
    /\ results = <<>>
    /\ failures = <<>>
    /\ fit_arg = Pending
    /\ fit_ret = [round |-> 0, outcome |-> Pending]
    /\ central_ret = Pending
    /\ eval_ret = Pending
    /\ calls = <<>>
    /\ probe = None
    /\ probe_out = Pending

\* initialize_parameters declining to give initial parameters
initialize_parameters_no_opinion(self, cm) == None

\* initialize_parameters: the weights of a fresh Net()
initialize_parameters(self, cm) == ndarrays_to_parameters(InitialNdarrays)

\* what a client asked for its parameters answers: the weights of its own Net()
ClientInitialParameters ==
    {ndarrays_to_parameters(InitialNdarrays),
     ndarrays_to_parameters(<<Tensor(<<1, 3>>), Tensor(<<2>>)>>)}

\* the session's one call of initialize_parameters.  Were it to return None,
\* the driver would ask one available client for its parameters instead.
DriverInitializeParameters ==
    /\ pc = "initialize_parameters"
    /\ LET ret == initialize_parameters(strategy, client_manager)
       IN IF ret # None
          THEN /\ parameters' = ret
               /\ calls' = Append(calls, "initialize_parameters")
          ELSE /\ parameters' \in ClientInitialParameters
               /\ calls' = calls \o <<"initialize_parameters", "get_parameters">>
    /\ server_round' = 1
    /\ pc' = "configure_fit"
    /\ UNCHANGED <<strategy, client_manager, sampled, instructions, results,
                   failures, fit_arg, fit_ret, central_ret, eval_ret, probes>>

\* a client joins the registry between two configure_* calls
Join ==
    /\ pc \in {"configure_fit", "configure_evaluate"}
    /\ \E c \in Clients \ client_manager : client_manager' = client_manager \cup {c}
    /\ UNCHANGED <<strategy, pc, server_round, parameters, sampled, instructions,
                   results, failures, fit_arg, fit_ret, central_ret, eval_ret,
                   calls, probes>>

\* a client leaves the registry between two configure_* calls
Leave ==
    /\ pc \in {"configure_fit", "configure_evaluate"}
    /\ \E c \in client_manager : client_manager' = client_manager \ {c}
    /\ UNCHANGED <<strategy, pc, server_round, parameters, sampled, instructions,
                   results, failures, fit_arg, fit_ret, central_ret, eval_ret,
                   calls, probes>>

\* one request to the registry and its return
Sampled(cm, nums, clients) ==
    [available |-> num_available(cm), num_clients |-> nums[1],
     min_num_clients |-> nums[2], clients |-> clients]

\* a configure_fit that works from the membership the session started with
\* instead of asking the registry
DriverConfigureFitWithCachedMembership ==
    /\ pc = "configure_fit"
    /\ LET nums == num_fit_clients(strategy, num_available(Clients))
       IN \E clients \in sample(Clients, nums[1], nums[2]) :
            /\ sampled' = Sampled(Clients, nums, clients)
            /\ instructions' = fit_configurations(parameters, clients)
    /\ pc' = IF instructions' = <<>> THEN "evaluate" ELSE "fit_clients"
    /\ fit_arg' = parameters
    /\ results' = <<>>
    /\ failures' = <<>>
    /\ central_ret' = Pending
    /\ eval_ret' = Pending
    /\ calls' = Append(calls, "configure_fit")
    /\ UNCHANGED <<strategy, client_manager, server_round, parameters, fit_ret,
                   probes>>

\* a configure_fit that keeps the sample size it computed as its new
\* min_fit_clients
DriverConfigureFitStoringSampleSize ==
    /\ pc = "configure_fit"
    /\ LET nums == num_fit_clients(strategy, num_available(client_manager))
       IN /\ \E clients \in sample(client_manager, nums[1], nums[2]) :
               /\ sampled' = Sampled(client_manager, nums, clients)
               /\ instructions' = fit_configurations(parameters, clients)
          /\ strategy' = [strategy EXCEPT !.min_fit_clients = nums[1]]
    /\ pc' = IF instructions' = <<>> THEN "evaluate" ELSE "fit_clients"
    /\ fit_arg' = parameters
    /\ results' = <<>>
    /\ failures' = <<>>
    /\ central_ret' = Pending
    /\ eval_ret' = Pending
    /\ calls' = Append(calls, "configure_fit")
    /\ UNCHANGED <<client_manager, server_round, parameters, fit_ret, probes>>

\* the round's configure_fit: sample, then pair each client with its FitIns.
\* An empty instruction list skips the training half of the round.
DriverConfigureFit ==
    /\ pc = "configure_fit"
    /\ LET nums == num_fit_clients(strategy, num_available(client_manager))
       IN \E clients \in sample(client_manager, nums[1], nums[2]) :
            /\ sampled' = Sampled(client_manager, nums, clients)
            /\ instructions' = fit_configurations(parameters, clients)
    /\ pc' = IF instructions' = <<>> THEN "evaluate" ELSE "fit_clients"
    /\ fit_arg' = parameters
    /\ results' = <<>>
    /\ failures' = <<>>
    /\ central_ret' = Pending
    /\ eval_ret' = Pending
    /\ calls' = Append(calls, "configure_fit")
    /\ UNCHANGED <<strategy, client_manager, server_round, parameters, fit_ret,
                   probes>>

\* the number of instructed clients heard from so far
Collected == Len(results) + Len(failures)

\* a client failure given up on: the session is aborted instead of recording it
DriverFitClientAbortingOnFailure ==
    /\ pc = "fit_clients"
    /\ Collected < Len(instructions)
    /\ LET client == instructions[Collected + 1][1]
       IN \/ /\ \E res \in ClientFitRes : results' = Append(results, <<client, res>>)
             /\ UNCHANGED <<failures, pc>>
          \/ /\ failures' = Append(failures, Failure(client))
             /\ pc' = "aborted"
             /\ UNCHANGED results
    /\ UNCHANGED <<strategy, client_manager, server_round, parameters, sampled,
                   instructions, fit_arg, fit_ret, central_ret, eval_ret, calls,
                   probes>>

\* a client failure dropped without a trace: the failed client's instruction is
\* forgotten and no Failure entry is recorded
DriverFitClientForgettingFailure ==
    /\ pc = "fit_clients"
    /\ Collected < Len(instructions)
    /\ LET client == instructions[Collected + 1][1]
       IN \/ /\ \E res \in ClientFitRes : results' = Append(results, <<client, res>>)
             /\ UNCHANGED <<failures, instructions>>
          \/ /\ instructions' = SubSeq(instructions, 1, Collected)
                                 \o SubSeq(instructions, Collected + 2, Len(instructions))
             /\ UNCHANGED <<results, failures>>
    /\ UNCHANGED <<strategy, client_manager, pc, server_round, parameters, sampled,
                   fit_arg, fit_ret, central_ret, eval_ret, calls, probes>>

\* the next instructed client answers fit, or fails
DriverFitClient ==
    /\ pc = "fit_clients"
    /\ Collected < Len(instructions)
    /\ LET client == instructions[Collected + 1][1]
       IN \/ /\ \E res \in ClientFitRes : results' = Append(results, <<client, res>>)
             /\ UNCHANGED failures
          \/ /\ failures' = Append(failures, Failure(client))
             /\ UNCHANGED results
    /\ UNCHANGED <<strategy, client_manager, pc, server_round, parameters, sampled,
                   instructions, fit_arg, fit_ret, central_ret, eval_ret, calls,
                   probes>>

\* the round's aggregate_fit with its return dropped: the global parameters stay
DriverAggregateFitDroppingUpdate ==
    /\ pc = "fit_clients"
    /\ Collected = Len(instructions)
    /\ \E o \in aggregate_fit(strategy, server_round, results, failures) :
         /\ fit_ret' = [round |-> server_round, outcome |-> o]
         /\ pc' = "evaluate"
    /\ calls' = Append(calls, "aggregate_fit")
    /\ UNCHANGED <<strategy, client_manager, server_round, parameters, sampled,
                   instructions, results, failures, fit_arg, central_ret, eval_ret,
                   probes>>

\* the round's aggregate_fit not waiting for the clients still being collected
DriverAggregateFitBeforeCollected ==
    /\ pc = "fit_clients"
    /\ Collected <= Len(instructions)
    /\ \E o \in aggregate_fit(strategy, server_round, results, failures) :
         /\ fit_ret' = [round |-> server_round, outcome |-> o]
         /\ IF o.kind = "return"
            THEN /\ parameters' = IF o.value.kind = "Parameters" THEN o.value
                                  ELSE parameters
                 /\ pc' = "evaluate"
            ELSE /\ UNCHANGED parameters
                 /\ pc' \in {"aborted", "evaluate"}
    /\ calls' = Append(calls, "aggregate_fit")
    /\ UNCHANGED <<strategy, client_manager, server_round, sampled, instructions,
                   results, failures, fit_arg, central_ret, eval_ret, probes>>

\* the round's aggregate_fit, once every instructed client is collected.  A
\* returned parameter set replaces the global one; an error is surfaced to the
\* driver, which aborts the session or skips the update.
DriverAggregateFit ==
    /\ pc = "fit_clients"
    /\ Collected = Len(instructions)
    /\ \E o \in aggregate_fit(strategy, server_round, results, failures) :
         /\ fit_ret' = [round |-> server_round, outcome |-> o]
         /\ IF o.kind = "return"
            THEN /\ parameters' = IF o.value.kind = "Parameters" THEN o.value
                                  ELSE parameters
                 /\ pc' = "evaluate"
            ELSE /\ UNCHANGED parameters
                 /\ pc' \in {"aborted", "evaluate"}
    /\ calls' = Append(calls, "aggregate_fit")
    /\ UNCHANGED <<strategy, client_manager, server_round, sampled, instructions,
                   results, failures, fit_arg, central_ret, eval_ret, probes>>

\* the optional centralized evaluation of the round
DriverEvaluate ==
    /\ pc = "evaluate"
    /\ central_ret' = evaluate(strategy, server_round, parameters)
    /\ sampled' = Pending
    /\ instructions' = <<>>
    /\ results' = <<>>
    /\ failures' = <<>>
    /\ fit_arg' = Pending
    /\ pc' = "configure_evaluate"
    /\ calls' = Append(calls, "evaluate")
    /\ UNCHANGED <<strategy, client_manager, server_round, parameters, fit_ret,
                   eval_ret, probes>>

\* configure_evaluate without its check of a zero fraction_evaluate
DriverConfigureEvaluateWithoutZeroCheck ==
    /\ pc = "configure_evaluate"
    /\ LET nums == num_evaluation_clients(strategy, num_available(client_manager))
       IN \E clients \in sample(client_manager, nums[1], nums[2]) :
            /\ sampled' = Sampled(client_manager, nums, clients)
            /\ instructions' = evaluate_instructions(parameters, clients)
    /\ pc' = IF instructions' = <<>> THEN "end_round" ELSE "evaluate_clients"
    /\ calls' = Append(calls, "configure_evaluate")
    /\ UNCHANGED <<strategy, client_manager, server_round, parameters, results,
                   failures, fit_arg, fit_ret, central_ret, eval_ret, probes>>

\* the round's configure_evaluate; an empty list skips the evaluation half
DriverConfigureEvaluate ==
    /\ pc = "configure_evaluate"
    /\ IF strategy.fraction_evaluate = <<0, 1>>
       THEN /\ instructions' = <<>>
            /\ UNCHANGED sampled
       ELSE LET nums == num_evaluation_clients(strategy, num_available(client_manager))
            IN \E clients \in sample(client_manager, nums[1], nums[2]) :
                 /\ sampled' = Sampled(client_manager, nums, clients)
                 /\ instructions' = evaluate_instructions(parameters, clients)
    /\ pc' = IF instructions' = <<>> THEN "end_round" ELSE "evaluate_clients"
    /\ calls' = Append(calls, "configure_evaluate")
    /\ UNCHANGED <<strategy, client_manager, server_round, parameters, results,
                   failures, fit_arg, fit_ret, central_ret, eval_ret, probes>>

\* the next instructed client answers evaluate, or fails
DriverEvaluateClient ==
    /\ pc = "evaluate_clients"
    /\ Collected < Len(instructions)
    /\ LET client == instructions[Collected + 1][1]
       IN \/ /\ \E res \in ClientEvaluateRes :
                   results' = Append(results, <<client, res>>)
             /\ UNCHANGED failures
          \/ /\ failures' = Append(failures, Failure(client))
             /\ UNCHANGED results
    /\ UNCHANGED <<strategy, client_manager, pc, server_round, parameters, sampled,
                   instructions, fit_arg, fit_ret, central_ret, eval_ret, calls,
                   probes>>

\* the round's aggregate_evaluate, once every instructed client is collected
DriverAggregateEvaluate ==
    /\ pc = "evaluate_clients"
    /\ Collected = Len(instructions)
    /\ eval_ret' = aggregate_evaluate(strategy, server_round, results, failures)
    /\ pc' = IF eval_ret'.kind = "return" THEN "end_round" ELSE "aborted"
    /\ calls' = Append(calls, "aggregate_evaluate")
    /\ UNCHANGED <<strategy, client_manager, server_round, parameters, sampled,
                   instructions, results, failures, fit_arg, fit_ret, central_ret,
                   probes>>

\* the round is reported; the next one starts, or the session ends
DriverEndRound ==
    /\ pc = "end_round"
    /\ sampled' = Pending
    /\ instructions' = <<>>
    /\ results' = <<>>
    /\ failures' = <<>>
    /\ calls' = <<>>
    /\ IF server_round < NumRounds
       THEN /\ server_round' = server_round + 1
            /\ pc' = "configure_fit"
       ELSE /\ UNCHANGED server_round
            /\ pc' = "done"
    /\ UNCHANGED <<strategy, client_manager, parameters, fit_arg, fit_ret,
                   central_ret, eval_ret, probes>>

Next ==
    \/ DriverInitializeParameters
    \/ Join
    \/ Leave
    \/ DriverConfigureFit
    \/ DriverFitClient
    \/ DriverAggregateFit
    \/ DriverEvaluate
    \/ DriverConfigureEvaluate
    \/ DriverEvaluateClient
    \/ DriverAggregateEvaluate
    \/ DriverEndRound

Spec == Init /\ [][Next]_vars

\* the steps of the driver itself: all but the registry's membership changes
DriverStep ==
    \/ DriverInitializeParameters
    \/ DriverConfigureFit
    \/ DriverFitClient
    \/ DriverAggregateFit
    \/ DriverEvaluate
    \/ DriverConfigureEvaluate
    \/ DriverEvaluateClient
    \/ DriverAggregateEvaluate
    \/ DriverEndRound

\* the strategies of the sessions followed to their end: two clients trained
\* and no federated evaluation; one client trained and two evaluating, of at
\* least three available
FairStrategies ==
    {FedCustom(<<1, 2>>, <<0, 1>>, 2, 1, 1),
     FedCustom(<<1, 2>>, <<1, 2>>, 1, 2, 3)}

FairInit ==
    /\ strategy \in FairStrategies
    /\ client_manager = Clients
    /\ pc = "initialize_parameters"
    /\ server_round = 0
    /\ parameters = None
    /\ sampled = Pending
    /\ instructions = <<>>
    /\ results = <<>>
    /\ failures = <<>>
    /\ fit_arg = Pending
    /\ fit_ret = [round |-> 0, outcome |-> Pending]
    /\ central_ret = Pending
    /\ eval_ret = Pending
    /\ calls = <<>>
    /\ probe = None
    /\ probe_out = Pending

\* The driver is a sequential loop that always takes its next step, and a
\* dispatched client answers or is reported failed when its timeout expires.
FairSpec == FairInit /\ [][Next]_vars /\ WF_vars(DriverStep)

(***************************** operations on their own **********************)
\* The coordinator's operations are pure functions of their arguments.  Here
\* each is applied once to arguments drawn from bounded sets: the session stands
\* still, probe holds the arguments and probe_out receives the return.

\* the knobs of the strategy tutorial's runs beside those of the sessions
OpStrategies ==
    Strategies
    \cup {FedCustom(<<3, 10>>, <<3, 10>>, 3, 3, 10),
          FedCustom(<<25, 1000>>, <<5, 100>>, 20, 40, 1000)}

\* the sequences over S of length at most n
SeqsUpTo(S, n) == UNION {[1..k -> S] : k \in 0..n}

\* fit answers, among them zero-example ones and ones of another tensor count
\* or tensor shape
ProbeFitRes ==
    ClientFitRes
    \cup {FitRes(ndarrays_to_parameters(<<Tensor(<<1, 3>>), Tensor(<<2>>)>>), 0),
          FitRes(ndarrays_to_parameters(<<Tensor(<<1, 3>>), Tensor(<<2>>)>>), 2),
          FitRes(ndarrays_to_parameters(<<Tensor(<<5, -1>>), Tensor(<<4>>)>>), 0),
          FitRes(ndarrays_to_parameters(<<Tensor(<<1, 1>>)>>), 2),
          FitRes(ndarrays_to_parameters(<<Tensor(<<1>>), Tensor(<<2>>)>>), 1)}

ProbeEvaluateRes ==
    ClientEvaluateRes
    \cup {EvaluateRes(<<1, 1>>, 0), EvaluateRes(<<0, 1>>, 5), EvaluateRes(<<1, 2>>, 10)}

\* result j comes from client j
ResultLists(S) ==
    {[j \in DOMAIN answers |-> <<j, answers[j]>>] : answers \in SeqsUpTo(S, MaxResults)}

FailureLists == {<<>>, <<Failure(MaxResults + 1)>>,
                 <<Failure(MaxResults + 1), Failure(MaxResults + 2)>>}

\* the sampled orderings tried: 1..n and n..1, for each n
SampleOrders ==
    UNION {{[i \in 1..n |-> i], [i \in 1..n |-> n + 1 - i]} : n \in 0..MaxSample}

ProbeParameters ==
    {ndarrays_to_parameters(InitialNdarrays),
     ndarrays_to_parameters(<<Tensor(<<1, 3>>), Tensor(<<2>>)>>)}

Probes ==
    [kind : {"num"}, num_available_clients : 0..MaxAvailable]
    \cup [kind : {"aggregate_fit"}, server_round : {1}, results : ResultLists(ProbeFitRes),
          failures : FailureLists]
    \cup [kind : {"aggregate_evaluate"}, server_round : {1},
          results : ResultLists(ProbeEvaluateRes), failures : FailureLists]
    \cup [kind : {"configure_fit"}, server_round : 1..NumRounds,
          parameters : ProbeParameters, clients : SampleOrders]
    \cup [kind : {"fit_config"}, server_round : 1..(NumRounds + 1)]
    \cup [kind : {"configure"}, server_round : 1..NumRounds,
          parameters : ProbeParameters, client_manager : SUBSET Clients]
    \cup [kind : {"evaluate"}, server_round : 1..NumRounds, parameters : ProbeParameters]
    \cup {m \in [kind : {"mutate"}, op : {"configure_fit", "configure_evaluate"},
                  parameters : ProbeParameters, clients : SampleOrders,
                  holder : 1..MaxSample, field : {"parameters", "config"}] :
             m.holder <= Len(m.clients)}

InitOps ==
    /\ probe \in Probes
    /\ strategy \in IF probe.kind = "num" THEN OpStrategies
                    ELSE IF probe.kind = "configure" THEN Strategies
                    ELSE {FedCustom(<<1, 1>>, <<1, 1>>, 2, 2, 2)}
    /\ probe_out = Pending
    /\ client_manager = Clients
    /\ pc = "probe"
    /\ server_round = 0
    /\ parameters = None
    /\ sampled = Pending
    /\ instructions = <<>>
    /\ results = <<>>
    /\ failures = <<>>
    /\ fit_arg = Pending
    /\ fit_ret = [round |-> 0, outcome |-> Pending]
    /\ central_ret = Pending
    /\ eval_ret = Pending
    /\ calls = <<>>

session == <<strategy, client_manager, pc, server_round, parameters, sampled,
             instructions, results, failures, fit_arg, fit_ret, central_ret,
             eval_ret, calls>>

Called(op, ret) == [op |-> op, ret |-> ret]

ProbeNumFitClients ==
    /\ probe.kind = "num"
    /\ probe_out = Pending
    /\ probe_out' = Called("num_fit_clients",
                           num_fit_clients(strategy, probe.num_available_clients))
    /\ UNCHANGED <<session, probe>>

ProbeNumEvaluationClients ==
    /\ probe.kind = "num"
    /\ probe_out = Pending
    /\ probe_out' = Called("num_evaluation_clients",
                           num_evaluation_clients(strategy, probe.num_available_clients))
    /\ UNCHANGED <<session, probe>>

ProbeAggregateFit ==
    /\ probe.kind = "aggregate_fit"
    /\ probe_out = Pending
    /\ \E o \in aggregate_fit(strategy, probe.server_round, probe.results, probe.failures) :
         probe_out' = Called("aggregate_fit", o)
    /\ UNCHANGED <<session, probe>>

ProbeAggregateEvaluate ==
    /\ probe.kind = "aggregate_evaluate"
    /\ probe_out = Pending
    /\ probe_out' = Called("aggregate_evaluate",
                           aggregate_evaluate(strategy, probe.server_round,
                                              probe.results, probe.failures))
    /\ UNCHANGED <<session, probe>>

\* configure_fit from the point where the registry has returned probe.clients
ProbeConfigureFit ==
    /\ probe.kind = "configure_fit"
    /\ probe_out = Pending
    /\ probe_out' = Called("configure_fit",
                           fit_configurations(probe.parameters, probe.clients))
    /\ UNCHANGED <<session, probe>>

ProbeFitConfig ==
    /\ probe.kind = "fit_config"
    /\ probe_out = Pending
    /\ probe_out' = Called("fit_config", fit_config(probe.server_round))
    /\ UNCHANGED <<session, probe>>

\* what a client does to an object it was handed: the tensor list emptied,
\* a config entry overwritten
ClientMutation(field) ==
    IF field = "parameters" THEN ndarrays_to_parameters(<<>>) ELSE [lr |-> <<1, 1>>]

\* the instruction list a configure_* call returns for the sample probe.clients
ProbeInstructions ==
    IF probe.op = "configure_fit"
    THEN fit_configurations(probe.parameters, probe.clients)
    ELSE evaluate_instructions(probe.parameters, probe.clients)

\* a configure_* call returns its list, and the client probe.holder changes in
\* place what its instruction holds
ProbeClientMutation ==
    /\ probe.kind = "mutate"
    /\ probe_out = Pending
    /\ probe_out' = Called("mutate",
                           mutated_in_place(probe.parameters, ProbeInstructions,
                                            probe.holder, probe.field,
                                            ClientMutation(probe.field)))
    /\ UNCHANGED <<session, probe>>

\* configure_fit with its request to the registry
ProbeConfigureFitSampling ==
    /\ probe.kind = "configure"
    /\ probe_out = Pending
    /\ \E out \in configure_fit(strategy, probe.server_round, probe.parameters,
                                 probe.client_manager) :
         probe_out' = Called("strategy.configure_fit", out)
    /\ UNCHANGED <<session, probe>>

ProbeConfigureEvaluate ==
    /\ probe.kind = "configure"
    /\ probe_out = Pending
    /\ \E out \in configure_evaluate(strategy, probe.server_round, probe.parameters,
                                      probe.client_manager) :
         probe_out' = Called("strategy.configure_evaluate", out)
    /\ UNCHANGED <<session, probe>>

ProbeEvaluate ==
    /\ probe.kind = "evaluate"
    /\ probe_out = Pending
    /\ probe_out' = Called("strategy.evaluate",
                           evaluate(strategy, probe.server_round, probe.parameters))
    /\ UNCHANGED <<session, probe>>

NextOps ==
    \/ ProbeNumFitClients
    \/ ProbeNumEvaluationClients
    \/ ProbeAggregateFit
    \/ ProbeAggregateEvaluate
    \/ ProbeConfigureFit
    \/ ProbeFitConfig
    \/ ProbeClientMutation
    \/ ProbeConfigureFitSampling
    \/ ProbeConfigureEvaluate
    \/ ProbeEvaluate

SpecOps == InitOps /\ [][NextOps]_vars

(***************************** properties ***********************************)
\* the operation op has been applied to probe and has returned
Applied(op) == probe_out # Pending /\ probe_out.op = op

\* q = floor(a * f) for a fraction f = <<numerator, denominator>>
IsFloorOfProduct(q, a, f) == q * f[2] <= a * f[1] /\ a * f[1] < (q + 1) * f[2]

\* C1: num_fit_clients(a) returns (max(floor(a * fraction_fit), min_fit_clients),
\* min_available_clients) for every a >= 0 and every knob setting; a = 100 with
\* fraction 0.3 and minimum 3 gives 30, a = 5 gives 3, and a = 1000 with fraction
\* 0.025 and minimum 20 gives 25.
C1_NumFitClients ==
    Applied("num_fit_clients") =>
        LET a == probe.num_available_clients
            sample_size == probe_out.ret[1]
        IN /\ \E q \in 0..a :
                /\ IsFloorOfProduct(q, a, strategy.fraction_fit)
                /\ sample_size >= q
                /\ sample_size >= strategy.min_fit_clients
                /\ sample_size \in {q, strategy.min_fit_clients}
           /\ probe_out.ret[2] = strategy.min_available_clients
           /\ (strategy.fraction_fit = <<3, 10>> /\ strategy.min_fit_clients = 3) =>
                 /\ a = 100 => sample_size = 30
                 /\ a = 5 => sample_size = 3
           /\ (strategy.fraction_fit = <<25, 1000>> /\ strategy.min_fit_clients = 20
               /\ a = 1000) => sample_size = 25

\* num_fit_clients has been applied where the minimum wins over the fraction
C1_Witness ==
    /\ Applied("num_fit_clients")
    /\ probe.num_available_clients = 5
    /\ strategy.fraction_fit = <<3, 10>>
    /\ strategy.min_fit_clients = 3
    /\ probe_out.ret = <<3, 10>>

\* C2: aggregate_fit with an empty results list returns no parameters (None)
\* with an empty metrics mapping, and does not raise.
C2_EmptyResultsReturnNone ==
    (Applied("aggregate_fit") /\ probe.results = <<>>) =>
        probe_out.ret = Return(None, EmptyDict)

\* the total of num_examples over the first n results
RECURSIVE TotalExamples(_, _)
TotalExamples(rs, n) ==
    IF n = 0 THEN 0 ELSE TotalExamples(rs, n - 1) + rs[n][2].num_examples

\* the integer element [i][k] of result j's parameters
Element(rs, j, i, k) == rs[j][2].parameters.tensors[i].bytes[k][1]

\* the total of num_examples_j * element_j[i][k] over the first n results
RECURSIVE TotalWeightedElement(_, _, _, _)
TotalWeightedElement(rs, i, k, n) ==
    IF n = 0 THEN 0
    ELSE TotalWeightedElement(rs, i, k, n - 1)
         + rs[n][2].num_examples * Element(rs, n, i, k)

\* the tensor lengths of result j's parameters
ShapeOf(rs, j) ==
    [i \in DOMAIN rs[j][2].parameters.tensors |->
        Len(rs[j][2].parameters.tensors[i].bytes)]

SharedShape(rs) == \A j \in DOMAIN rs : ShapeOf(rs, j) = ShapeOf(rs, 1)

\* C3: for a non-empty results list whose parameter sets share tensor count and
\* shapes (and whose sample counts do not all vanish), aggregate_fit returns a
\* parameter set of that shape whose element [i][k] is
\* sum_j(num_examples_j * element_j[i][k]) / sum_j(num_examples_j).
C3_WeightedMean ==
    (/\ Applied("aggregate_fit")
     /\ probe.results # <<>>
     /\ SharedShape(probe.results)
     /\ TotalExamples(probe.results, Len(probe.results)) > 0) =>
        LET rs == probe.results
            n == Len(rs)
            out == probe_out.ret
        IN /\ out.kind = "return"
           /\ out.value.kind = "Parameters"
           /\ DOMAIN out.value.tensors = DOMAIN rs[1][2].parameters.tensors
           /\ \A i \in DOMAIN out.value.tensors :
                /\ DOMAIN out.value.tensors[i].bytes
                     = DOMAIN rs[1][2].parameters.tensors[i].bytes
                /\ \A k \in DOMAIN out.value.tensors[i].bytes :
                     LET e == out.value.tensors[i].bytes[k]
                     IN /\ e[2] > 0
                        /\ e[1] * TotalExamples(rs, n)
                             = e[2] * TotalWeightedElement(rs, i, k, n)

\* aggregate_fit has averaged two different parameter sets of unequal weight
C3_Witness ==
    /\ Applied("aggregate_fit")
    /\ Len(probe.results) = 2
    /\ probe.results[1][2].num_examples = 1
    /\ probe.results[2][2].num_examples = 3
    /\ probe.results[1][2].parameters # probe.results[2][2].parameters
    /\ probe_out.ret.kind = "return"
    /\ probe_out.ret.value.tensors[1].bytes = <<<<4, 1>>, <<0, 1>>>>

\* the round's configure_fit has returned and its aggregate_fit has not yet run
FitConfigured == fit_arg # Pending /\ fit_ret.round < server_round

\* C4: the parameter set passed to round N+1's configure_fit is exactly the one
\* round N's aggregate_fit returned, and it is what every instruction carries.
C4_NextRoundGetsAggregate ==
    (/\ FitConfigured
     /\ fit_ret.round = server_round - 1
     /\ fit_ret.outcome.kind = "return"
     /\ fit_ret.outcome.value.kind = "Parameters") =>
        /\ fit_arg = fit_ret.outcome.value
        /\ \A i \in DOMAIN instructions :
             instructions[i][2].parameters = fit_ret.outcome.value

\* round 2 has been configured with an aggregate of round 1 that differs from
\* the initial parameters
C4_Witness ==
    /\ FitConfigured
    /\ server_round = 2
    /\ fit_ret.round = 1
    /\ fit_ret.outcome.kind = "return"
    /\ fit_ret.outcome.value.tensors # <<>>
    /\ fit_ret.outcome.value # ndarrays_to_parameters(InitialNdarrays)
    /\ instructions # <<>>
    /\ fit_arg = fit_ret.outcome.value

\* C5: configure_fit gives the first floor(n/2) of the n sampled clients
\* {lr: 0.001} and the others {lr: 0.003}, keeps the order of the sample, and so
\* returns the same list for the same sampled ordering; n = 10 gives 5 and 5.
C5_HalvesInSampleOrder ==
    Applied("configure_fit") =>
        LET n == Len(probe.clients)
            out == probe_out.ret
        IN /\ Len(out) = n
           /\ \A i \in 1..n :
                /\ out[i][1] = probe.clients[i]
                /\ out[i][2].parameters = probe.parameters
                /\ out[i][2].config = IF 2 * i <= n THEN [lr |-> <<1, 1000>>]
                                      ELSE [lr |-> <<3, 1000>>]
           /\ n = 10 =>
                /\ Cardinality({i \in 1..n : out[i][2].config.lr = <<1, 1000>>}) = 5
                /\ Cardinality({i \in 1..n : out[i][2].config.lr = <<3, 1000>>}) = 5

\* ten clients sampled in descending order have been configured
C5_Witness ==
    /\ Applied("configure_fit")
    /\ Len(probe.clients) = 10
    /\ probe.clients[1] = 10
    /\ probe_out.ret[5][2].config.lr = <<1, 1000>>
    /\ probe_out.ret[6][2].config.lr = <<3, 1000>>

\* C6: with fewer clients available than min_available_clients, configure_fit
\* returns an empty instruction list, never a non-empty one.
C6_TooFewClientsNoInstructions ==
    (FitConfigured /\ sampled.available < strategy.min_available_clients) =>
        /\ sampled.clients = <<>>
        /\ instructions = <<>>

\* configure_fit has run with some clients available, but fewer than required
C6_Witness ==
    /\ FitConfigured
    /\ sampled.available > 0
    /\ sampled.available < strategy.min_available_clients
    /\ sampled.available >= sampled.num_clients
    /\ instructions = <<>>
    /\ pc = "evaluate"

\* C7 as stated: at every selection attempt min_available_clients <=
\* min_num_clients <= sample_size <= available, or else the selection fails
\* instead of returning instructions.
C7_ChainOrFailure ==
    sampled # Pending =>
        \/ /\ strategy.min_available_clients <= sampled.min_num_clients
           /\ sampled.min_num_clients <= sampled.num_clients
           /\ sampled.num_clients <= sampled.available
        \/ instructions = <<>>

\* C7 amended: at every selection attempt min_num_clients is
\* min_available_clients, and instructions are returned exactly when both
\* min_num_clients <= available and sample_size <= available, one per requested
\* client; sample_size need not reach min_num_clients.
C7_SelectionThresholds ==
    sampled # Pending =>
        /\ sampled.min_num_clients = strategy.min_available_clients
        /\ sampled.available = num_available(client_manager)
        /\ instructions # <<>> =>
             /\ sampled.min_num_clients <= sampled.available
             /\ sampled.num_clients <= sampled.available
             /\ Len(instructions) = sampled.num_clients
        /\ (\/ sampled.min_num_clients > sampled.available
            \/ sampled.num_clients > sampled.available) => instructions = <<>>

\* a selection has succeeded with a sample size below the required minimum
C7_Witness ==
    /\ sampled # Pending
    /\ FitConfigured
    /\ instructions # <<>>
    /\ sampled.num_clients < sampled.min_num_clients

\* C8: for non-empty results, aggregate_fit and aggregate_evaluate return what
\* they return for an empty failures list, whatever the failures list holds.
C8_FailuresDoNotMatter ==
    /\ (Applied("aggregate_fit") /\ probe.results # <<>>) =>
          probe_out.ret \in aggregate_fit(strategy, probe.server_round, probe.results, <<>>)
    /\ (Applied("aggregate_evaluate") /\ probe.results # <<>>) =>
          probe_out.ret = aggregate_evaluate(strategy, probe.server_round,
                                             probe.results, <<>>)

\* aggregate_fit has returned parameters although two clients had failed
C8_Witness ==
    /\ Applied("aggregate_fit")
    /\ Len(probe.failures) = 2
    /\ Len(probe.results) = 1
    /\ probe_out.ret.kind = "return"
    /\ probe_out.ret.value = probe.results[1][2].parameters

\* C9: results whose parameter sets differ in tensor count or in a tensor's
\* shape make aggregate_fit fail with ShapeMismatch; no averaged set is returned.
C9_ShapeMismatchFails ==
    (/\ Applied("aggregate_fit")
     /\ probe.results # <<>>
     /\ ~SharedShape(probe.results)) =>
        probe_out.ret = Raise("ShapeMismatch")

\* aggregate_fit has been handed parameter sets of two and of one tensor
C9_Witness ==
    /\ Applied("aggregate_fit")
    /\ Len(probe.results) = 2
    /\ Len(probe.results[1][2].parameters.tensors) = 2
    /\ Len(probe.results[2][2].parameters.tensors) = 1
    /\ probe.results[1][2].num_examples > 0
    /\ probe_out.ret.kind = "raise"

\* the total of num_examples over evaluate results
RECURSIVE TotalEvaluateExamples(_, _)
TotalEvaluateExamples(rs, n) ==
    IF n = 0 THEN 0 ELSE TotalEvaluateExamples(rs, n - 1) + rs[n][2].num_examples

\* C10: when the sample counts of the results sum to zero, the weighted average
\* fails with ZeroWeight, for parameters (of one shape) in aggregate_fit and for
\* losses in aggregate_evaluate; no value is returned.
C10_ZeroWeightFails ==
    /\ (/\ Applied("aggregate_fit")
        /\ probe.results # <<>>
        /\ TotalExamples(probe.results, Len(probe.results)) = 0) =>
          /\ probe_out.ret.kind = "raise"
          /\ SharedShape(probe.results) => probe_out.ret = Raise("ZeroWeight")
    /\ (/\ Applied("aggregate_evaluate")
        /\ probe.results # <<>>
        /\ TotalEvaluateExamples(probe.results, Len(probe.results)) = 0) =>
          probe_out.ret = Raise("ZeroWeight")

\* aggregate_fit has been handed two results of zero examples each
C10_Witness ==
    /\ Applied("aggregate_fit")
    /\ Len(probe.results) = 2
    /\ probe.results[1][2].num_examples = 0
    /\ probe.results[2][2].num_examples = 0
    /\ SharedShape(probe.results)
    /\ probe_out.ret = Raise("ZeroWeight")

\* the latest operation invoked in the current round is op
Invoked(op) == calls # <<>> /\ calls[Len(calls)] = op

\* the operations invoked so far in the current round
Invocations == {calls[i] : i \in DOMAIN calls}

\* the place of an operation in the driver's fixed order
Rank(op) ==
    CASE op = "initialize_parameters" -> 0
      [] op = "get_parameters" -> 1
      [] op = "configure_fit" -> 2
      [] op = "aggregate_fit" -> 3
      [] op = "evaluate" -> 4
      [] op = "configure_evaluate" -> 5
      [] op = "aggregate_evaluate" -> 6

\* the clients the collected results and failures came from, in order
Answered ==
    [i \in 1..Len(results) |-> results[i][1]]
    \o [i \in 1..Len(failures) |-> failures[i].client]

\* C11: in each round the operations are invoked in the fixed order
\* configure_fit, aggregate_fit, evaluate, configure_evaluate,
\* aggregate_evaluate, each at most once; an aggregate operation directly follows
\* its configure operation and is invoked only when every instruction has been
\* collected as a result or a failure; while clients are being collected no
\* operation is invoked; the aggregate_fit on record is never of a later round
\* than the current one, so a round's configure_fit follows the return of the
\* previous round's aggregate_fit.
C11_FixedOrder ==
    /\ \A i, j \in DOMAIN calls : i < j => Rank(calls[i]) < Rank(calls[j])
    /\ \A i \in DOMAIN calls :
         /\ calls[i] = "aggregate_fit" => i > 1 /\ calls[i - 1] = "configure_fit"
         /\ calls[i] = "aggregate_evaluate" =>
              i > 1 /\ calls[i - 1] = "configure_evaluate"
         /\ calls[i] = "configure_evaluate" => i > 1 /\ calls[i - 1] = "evaluate"
         /\ calls[i] = "evaluate" => "configure_fit" \in Invocations
    /\ (Invoked("aggregate_fit") \/ Invoked("aggregate_evaluate")) =>
         /\ instructions # <<>>
         /\ Collected = Len(instructions)
         /\ \A i \in DOMAIN instructions :
              Cardinality({k \in DOMAIN Answered : Answered[k] = instructions[i][1]}) = 1
    /\ pc = "fit_clients" => Invoked("configure_fit") /\ Collected <= Len(instructions)
    /\ pc = "evaluate_clients" =>
         Invoked("configure_evaluate") /\ Collected <= Len(instructions)
    /\ fit_ret.round <= server_round
    /\ fit_ret.round >= 1 => fit_ret.outcome # Pending
    /\ pc # "done" =>
         ((server_round >= 1 /\ fit_ret.round = server_round)
            <=> "aggregate_fit" \in Invocations)
    /\ pc = "configure_fit" => calls \in {<<>>, <<"initialize_parameters">>}

\* round 2 has gone through all five operations, with a client failure collected
C11_Witness ==
    /\ server_round = 2
    /\ pc = "end_round"
    /\ calls = <<"configure_fit", "aggregate_fit", "evaluate", "configure_evaluate",
                 "aggregate_evaluate">>
    /\ failures # <<>>
    /\ results # <<>>

\* C12: with fraction_evaluate exactly 0.0, configure_evaluate returns an empty
\* instruction list whatever the number of available clients and whatever
\* min_evaluate_clients, and makes no request to the registry.
C12_ZeroFractionNoEvaluation ==
    (Invoked("configure_evaluate") /\ strategy.fraction_evaluate = <<0, 1>>) =>
        /\ instructions = <<>>
        /\ sampled = Pending
        /\ pc = "end_round"

\* configure_evaluate has returned with fraction_evaluate 0.0 although
\* min_evaluate_clients = 3 clients were available
C12_Witness ==
    /\ Invoked("configure_evaluate")
    /\ strategy.fraction_evaluate = <<0, 1>>
    /\ strategy.min_evaluate_clients = 3
    /\ num_available(client_manager) = 3
    /\ strategy.min_available_clients <= 3
    /\ instructions = <<>>

\* C13: with a non-zero fraction_evaluate, configure_evaluate requests
\* max(floor(available * fraction_evaluate), min_evaluate_clients) clients with
\* required minimum min_available_clients, and returns one instruction per
\* sampled client, in the order of the sample, each carrying the parameters.
C13_EvaluateSelection ==
    (Invoked("configure_evaluate") /\ strategy.fraction_evaluate # <<0, 1>>) =>
        /\ sampled # Pending
        /\ sampled.available = num_available(client_manager)
        /\ \E q \in 0..sampled.available :
             /\ IsFloorOfProduct(q, sampled.available, strategy.fraction_evaluate)
             /\ sampled.num_clients >= q
             /\ sampled.num_clients >= strategy.min_evaluate_clients
             /\ sampled.num_clients \in {q, strategy.min_evaluate_clients}
        /\ sampled.min_num_clients = strategy.min_available_clients
        /\ Len(instructions) = Len(sampled.clients)
        /\ \A i \in DOMAIN instructions :
             /\ instructions[i][1] = sampled.clients[i]
             /\ instructions[i][2].parameters = parameters
             /\ instructions[i][2].config = EmptyDict

\* configure_evaluate has instructed two clients where the fit knobs would
\* have selected one
C13_Witness ==
    /\ Invoked("configure_evaluate")
    /\ strategy.fraction_evaluate = <<1, 2>>
    /\ strategy.min_evaluate_clients = 2
    /\ strategy.min_fit_clients = 1
    /\ sampled # Pending
    /\ sampled.available = 3
    /\ sampled.num_clients = 2
    /\ Len(instructions) = 2

\* the product of the denominators of the first n losses
RECURSIVE LossDenominators(_, _)
LossDenominators(rs, n) ==
    IF n = 0 THEN 1 ELSE LossDenominators(rs, n - 1) * rs[n][2].loss[2]

\* d times the total of num_examples_i * loss_i over the first n results, for
\* a multiple d of every loss's denominator
RECURSIVE TotalWeightedLoss(_, _, _)
TotalWeightedLoss(rs, n, d) ==
    IF n = 0 THEN 0
    ELSE TotalWeightedLoss(rs, n - 1, d)
         + rs[n][2].num_examples * rs[n][2].loss[1] * (d \div rs[n][2].loss[2])

\* C14: for a non-empty results list (whose sample counts do not all vanish),
\* aggregate_evaluate returns the loss sum_i(count_i * loss_i) / sum_i(count_i)
\* with an empty metrics mapping; results [(10, 2.0), (30, 4.0)] give 3.5.
C14_WeightedLoss ==
    (/\ Applied("aggregate_evaluate")
     /\ probe.results # <<>>
     /\ TotalEvaluateExamples(probe.results, Len(probe.results)) > 0) =>
        LET rs == probe.results
            n == Len(rs)
            d == LossDenominators(rs, n)
            out == probe_out.ret
        IN /\ out.kind = "return"
           /\ out.metrics = EmptyDict
           /\ out.value.kind = "loss"
           /\ out.value.value[2] > 0
           /\ out.value.value[1] * TotalEvaluateExamples(rs, n) * d
                = out.value.value[2] * TotalWeightedLoss(rs, n, d)
           /\ (/\ n = 2
               /\ rs[1][2] = EvaluateRes(<<2, 1>>, 10)
               /\ rs[2][2] = EvaluateRes(<<4, 1>>, 30)) => out.value.value = <<7, 2>>

\* aggregate_evaluate has averaged the losses 2.0 of 10 examples and 4.0 of 30
C14_Witness ==
    /\ Applied("aggregate_evaluate")
    /\ Len(probe.results) = 2
    /\ probe.results[1][2] = EvaluateRes(<<2, 1>>, 10)
    /\ probe.results[2][2] = EvaluateRes(<<4, 1>>, 30)
    /\ probe_out.ret = Return([kind |-> "loss", value |-> <<7, 2>>], EmptyDict)

\* C15: with an empty results list aggregate_evaluate returns (None, {}) and
\* does not raise, whatever the failures list holds.
C15_EmptyEvaluateResults ==
    (Applied("aggregate_evaluate") /\ probe.results = <<>>) =>
        /\ probe_out.ret.kind = "return"
        /\ probe_out.ret.value = None
        /\ probe_out.ret.metrics = EmptyDict

\* aggregate_evaluate has returned for no results and two failures
C15_Witness ==
    /\ Applied("aggregate_evaluate")
    /\ probe.results = <<>>
    /\ Len(probe.failures) = 2
    /\ probe_out.ret = Return(None, EmptyDict)

\* C16: whenever the selection of configure_fit succeeds, the returned list
\* holds every sampled client exactly once and no other client, and every
\* instruction carries the parameter set passed to configure_fit.
C16_EachSampledClientOnce ==
    (Invoked("configure_fit") /\ sampled.clients # <<>>) =>
        /\ Len(instructions) = Len(sampled.clients)
        /\ \A k \in DOMAIN sampled.clients :
             Cardinality({i \in DOMAIN instructions :
                            instructions[i][1] = sampled.clients[k]}) = 1
        /\ \A i \in DOMAIN instructions :
             /\ \E k \in DOMAIN sampled.clients : instructions[i][1] = sampled.clients[k]
             /\ instructions[i][2].parameters = fit_arg

\* round 2's configure_fit has instructed three clients, sampled in another
\* order than that of their ids, with parameters other than the initial ones
C16_Witness ==
    /\ Invoked("configure_fit")
    /\ server_round = 2
    /\ Len(sampled.clients) = 3
    /\ sampled.clients[1] > sampled.clients[2]
    /\ Len(instructions) = 3
    /\ fit_arg # ndarrays_to_parameters(InitialNdarrays)

\* C17: initialize_parameters is invoked at most once in a session, as its
\* first operation and so before round 1's configure_fit; the parameter set it
\* returns is the one round 1's configure_fit receives and hands out, and no
\* client is asked for initial parameters.
C17_InitializedOnce ==
    /\ \A i \in DOMAIN calls :
         calls[i] = "initialize_parameters" => i = 1 /\ server_round = 1
    /\ "get_parameters" \notin Invocations
    /\ pc = "initialize_parameters" <=> server_round = 0
    /\ server_round = 0 => calls = <<>> /\ parameters = None /\ fit_arg = Pending
    /\ (server_round = 1 /\ "configure_fit" \in Invocations) =>
         calls[1] = "initialize_parameters" /\ calls[2] = "configure_fit"
    /\ (server_round = 1 /\ Invoked("configure_fit")) =>
         /\ fit_arg = ndarrays_to_parameters(InitialNdarrays)
         /\ \A i \in DOMAIN instructions :
              instructions[i][2].parameters = ndarrays_to_parameters(InitialNdarrays)

\* round 1's configure_fit has handed the initial parameters to three clients
C17_Witness ==
    /\ server_round = 1
    /\ calls = <<"initialize_parameters", "configure_fit">>
    /\ Len(instructions) = 3
    /\ instructions[3][2].parameters = ndarrays_to_parameters(InitialNdarrays)

\* C19: the centralized evaluate hook returns None in every round and for
\* every parameter set, and None is not the return of a zero loss.
C19_EvaluateReturnsNone ==
    /\ central_ret \in {Pending, None}
    /\ ("evaluate" \in Invocations) =>
         /\ central_ret = None
         /\ central_ret # evaluate_zero_loss(strategy, server_round, parameters)
         /\ central_ret.kind # "return"

\* round 3's centralized evaluate has returned, for aggregated parameters
C19_Witness ==
    /\ Invoked("evaluate")
    /\ server_round = 3
    /\ parameters # ndarrays_to_parameters(InitialNdarrays)
    /\ parameters # None
    /\ central_ret = None

\* C20: the weighted average of N >= 1 identical parameter sets, with any
\* positive weights, is that same parameter set.
C20_IdenticalSetsAverageToThemselves ==
    (/\ Applied("aggregate_fit")
     /\ probe.results # <<>>
     /\ \A j \in DOMAIN probe.results :
          /\ probe.results[j][2].parameters = probe.results[1][2].parameters
          /\ probe.results[j][2].num_examples > 0) =>
        /\ probe_out.ret.kind = "return"
        /\ probe_out.ret.value = probe.results[1][2].parameters

\* aggregate_fit has averaged three copies of one parameter set, of unequal
\* weights
C20_Witness ==
    /\ Applied("aggregate_fit")
    /\ Len(probe.results) = 3
    /\ \A j \in 1..3 :
         probe.results[j][2].parameters
           = ndarrays_to_parameters(<<Tensor(<<1, 3>>), Tensor(<<2>>)>>)
    /\ probe.results[1][2].num_examples = 1
    /\ probe.results[2][2].num_examples = 2
    /\ probe.results[3][2].num_examples = 2
    /\ probe_out.ret.kind = "return"
    /\ probe_out.ret.value = probe.results[1][2].parameters

\* the session has ended
Ended == pc \in {"done", "aborted"}

ScaledResults(rs, c) ==
    [j \in DOMAIN rs |->
       <<rs[j][1], FitRes(rs[j][2].parameters, c * rs[j][2].num_examples)>>]

\* C21: multiplying the num_examples of every result by the same constant
\* c >= 1 leaves the outcome of aggregate_fit unchanged: the same averaged
\* parameter set, or the same failure.
C21_WeightScaleInvariance ==
    (Applied("aggregate_fit") /\ probe.results # <<>>) =>
        \A c \in 1..MaxScale :
            aggregate_fit(strategy, probe.server_round, ScaledResults(probe.results, c),
                          probe.failures) = {probe_out.ret}

\* aggregate_fit has averaged two different parameter sets of weights 1 and 3,
\* and weights 3 and 9 give the same average
C21_Witness ==
    /\ Applied("aggregate_fit")
    /\ Len(probe.results) = 2
    /\ probe.results[1][2].num_examples = 1
    /\ probe.results[2][2].num_examples = 3
    /\ probe.results[1][2].parameters # probe.results[2][2].parameters
    /\ probe_out.ret.kind = "return"
    /\ probe_out.ret.value.tensors[2].bytes = <<<<7, 2>>>>
    /\ ScaledResults(probe.results, 3)[2][2].num_examples = 9
    /\ probe_out.ret \in aggregate_fit(strategy, 1, ScaledResults(probe.results, 3), <<>>)

\* C22: fit_config sets local_epochs to 1 in rounds 1 and 2 and to 2 from
\* round 3 on, and always sets server_round to the current round number.
C22_FitConfigEpochs ==
    Applied("fit_config") =>
        /\ probe_out.ret.server_round = probe.server_round
        /\ probe_out.ret.local_epochs = IF probe.server_round <= 2 THEN 1 ELSE 2

\* C23: no step of a session changes the five knobs of the strategy, so after
\* any sequence of operations they are those given at construction; and the
\* step that invokes configure_fit changes neither the knobs, nor the global
\* parameters, nor the registry, nor the aggregate on record: its effect is
\* the instruction list it returns.
C23_KnobsUnchanged ==
    /\ [][strategy' = strategy]_vars
    /\ [][(calls' # calls /\ (Invoked("configure_fit"))') =>
            /\ strategy' = strategy
            /\ parameters' = parameters
            /\ client_manager' = client_manager
            /\ fit_ret' = fit_ret
            /\ server_round' = server_round]_vars

\* a session of NumRounds rounds has ended after training and evaluating in
\* its last round, with the knobs 0.5, 1.0, 3, 1, 1
C23_Witness ==
    /\ pc = "done"
    /\ fit_ret.round = NumRounds
    /\ fit_ret.outcome.kind = "return"
    /\ eval_ret.kind = "return"
    /\ eval_ret.value # None
    /\ strategy = FedCustom(<<1, 2>>, <<1, 1>>, 3, 1, 1)

\* the latest request to the registry was computed by nums from the clients
\* available now, and selected among them
FromCurrentMembership(nums) ==
    /\ sampled # Pending
    /\ sampled.available = num_available(client_manager)
    /\ <<sampled.num_clients, sampled.min_num_clients>> = nums
    /\ \A i \in DOMAIN sampled.clients : sampled.clients[i] \in client_manager
    /\ \A i \in DOMAIN instructions : instructions[i][1] \in client_manager
    /\ instructions # <<>> =>
         Len(instructions) = nums[1] /\ nums[1] <= num_available(client_manager)

\* C24: every configure_fit, and every configure_evaluate with a non-zero
\* fraction_evaluate, computes its sample size from the number of clients
\* available at that call and instructs only clients that are registered
\* then, however the membership has changed since the calls before.
C24_AvailabilityRequeried ==
    /\ Invoked("configure_fit") =>
         FromCurrentMembership(num_fit_clients(strategy, num_available(client_manager)))
    /\ (Invoked("configure_evaluate") /\ strategy.fraction_evaluate # <<0, 1>>) =>
         FromCurrentMembership(
             num_evaluation_clients(strategy, num_available(client_manager)))

\* round 2's configure_fit has instructed the two clients that are left,
\* after a round 1 in which three clients were trained
C24_Witness ==
    /\ FitConfigured
    /\ Invoked("configure_fit")
    /\ server_round = 2
    /\ fit_ret.round = 1
    /\ fit_ret.outcome.kind = "return"
    /\ Len(fit_ret.outcome.value.tensors) = 2
    /\ fit_ret.outcome.value.tensors[1].bytes[1] = <<17, 5>>
    /\ num_available(client_manager) = 2
    /\ sampled.available = 2
    /\ Len(instructions) = 2
    /\ \A i \in DOMAIN instructions : instructions[i][1] \in client_manager

\* C25: the instructions of configure_fit and configure_evaluate hold copies:
\* after a client has changed in place the parameters or the config it was
\* handed, the caller's parameter set is what it was and every other client's
\* instruction holds the parameters and the config it was built with.
C25_HandedOutCopies ==
    Applied("mutate") =>
        /\ probe_out.ret.global = probe.parameters
        /\ \A i \in DOMAIN ProbeInstructions :
             i # probe.holder => probe_out.ret.received[i] = ProbeInstructions[i][2]

\* the number of entries of the results list that came from client c
InResults(c) == Cardinality({i \in DOMAIN results : results[i][1] = c})

\* the number of entries of the failures list that are of client c
InFailures(c) == Cardinality({i \in DOMAIN failures : failures[i].client = c})

\* C26: when aggregate_fit is invoked, each client that was sampled and
\* instructed by the round's configure_fit has exactly one entry, in the results
\* list or in the failures list and not in both, and the two lists hold nothing
\* else: a failed client is a Failure entry, never a missing one.
C26_ResultOrFailure ==
    Invoked("aggregate_fit") =>
        /\ sampled # Pending
        /\ Len(instructions) = Len(sampled.clients)
        /\ \A k \in DOMAIN sampled.clients :
             /\ instructions[k][1] = sampled.clients[k]
             /\ InResults(sampled.clients[k]) + InFailures(sampled.clients[k]) = 1
        /\ Len(results) + Len(failures) = Len(sampled.clients)
        /\ fit_ret.round = server_round

\* aggregate_fit has been invoked with two results and the Failure entry of the
\* second of three instructed clients
C26_Witness ==
    /\ Invoked("aggregate_fit")
    /\ Len(instructions) = 3
    /\ Len(results) = 2
    /\ Len(failures) = 1
    /\ failures[1].client = instructions[2][1]
    /\ results[2][1] = instructions[3][1]
    /\ InResults(instructions[2][1]) = 0

\* the results rs in the order f, a permutation of their positions
Permuted(rs, f) == [j \in DOMAIN rs |-> rs[f[j]]]

\* C27: the outcome of aggregate_fit and of aggregate_evaluate is the same for
\* every order of the results list: the same aggregated parameters, the same
\* aggregated loss, or the same failure.
C27_OrderIndependence ==
    /\ (Applied("aggregate_fit") /\ probe.results # <<>>) =>
          \A f \in DistinctSeqs(DOMAIN probe.results, Len(probe.results)) :
              aggregate_fit(strategy, probe.server_round, Permuted(probe.results, f),
                            probe.failures) = {probe_out.ret}
    /\ Applied("aggregate_evaluate") =>
          \A f \in DistinctSeqs(DOMAIN probe.results, Len(probe.results)) :
              aggregate_evaluate(strategy, probe.server_round,
                                 Permuted(probe.results, f), probe.failures)
                = probe_out.ret

\* aggregate_fit has averaged three results of weights 1, 3 and 2 from three
\* clients, and the same results in reverse order give the same average
C27_Witness ==
    /\ Applied("aggregate_fit")
    /\ Len(probe.results) = 3
    /\ probe.results[1][2].num_examples = 1
    /\ probe.results[2][2].num_examples = 3
    /\ probe.results[3][2].num_examples = 2
    /\ probe.results[1][2].parameters # probe.results[2][2].parameters
    /\ probe_out.ret.kind = "return"
    /\ probe_out.ret.value.tensors[1].bytes[1] = <<3, 1>>
    /\ Permuted(probe.results, <<3, 2, 1>>)[1] = probe.results[3]
    /\ probe_out.ret
         \in aggregate_fit(strategy, 1, Permuted(probe.results, <<3, 2, 1>>), <<>>)

\* the number of instructions of the list out whose config is {lr: lr}
WithLr(out, lr) == Cardinality({i \in DOMAIN out : out[i][2].config = [lr |-> lr]})

\* C28: of n sampled clients configure_fit gives {lr: 0.003} to ceil(n/2) and
\* {lr: 0.001} to floor(n/2): the higher-lr group is never the smaller one, the
\* sizes differ by at most one, and a single sampled client gets lr 0.003.
C28_GroupSizes ==
    Applied("configure_fit") =>
        LET n == Len(probe.clients)
            higher == WithLr(probe_out.ret, <<3, 1000>>)
            standard == WithLr(probe_out.ret, <<1, 1000>>)
        IN /\ higher + standard = n
           /\ 2 * higher \in {n, n + 1}
           /\ 2 * standard \in {n - 1, n}
           /\ higher >= standard
           /\ higher - standard <= 1
           /\ n = 1 => higher = 1 /\ standard = 0

\* configure_fit has configured a sample of one client, with lr 0.003
C28_Witness ==
    /\ Applied("configure_fit")
    /\ Len(probe.clients) = 1
    /\ Len(probe_out.ret) = 1
    /\ probe_out.ret[1][2].config = [lr |-> <<3, 1000>>]
    /\ WithLr(probe_out.ret, <<1, 1000>>) = 0

\* C29: what each operation returned in the round it was applied in is what
\* it returns, for the same other arguments, in every round 1..NumRounds; in
\* particular the learning rates and the split of configure_fit are those of
\* every round.
C29_RoundIndependence ==
    \A r \in 1..NumRounds :
        /\ Applied("strategy.configure_fit") =>
              /\ probe_out.ret \in configure_fit(strategy, r, probe.parameters,
                                                  probe.client_manager)
              /\ \A i \in DOMAIN probe_out.ret :
                   probe_out.ret[i][2].config
                     = IF 2 * i <= Len(probe_out.ret) THEN [lr |-> <<1, 1000>>]
                       ELSE [lr |-> <<3, 1000>>]
        /\ Applied("strategy.configure_evaluate") =>
              probe_out.ret \in configure_evaluate(strategy, r, probe.parameters,
                                                   probe.client_manager)
        /\ Applied("strategy.evaluate") =>
              probe_out.ret = evaluate(strategy, r, probe.parameters)
        /\ Applied("aggregate_fit") =>
              probe_out.ret \in aggregate_fit(strategy, r, probe.results, probe.failures)
        /\ Applied("aggregate_evaluate") =>
              probe_out.ret = aggregate_evaluate(strategy, r, probe.results,
                                                 probe.failures)

\* configure_fit has returned in round 3, for three sampled clients, a list
\* it may also return in round 1
C29_Witness ==
    /\ Applied("strategy.configure_fit")
    /\ probe.server_round = 3
    /\ Len(probe_out.ret) = 3
    /\ probe_out.ret[1][2].config = [lr |-> <<1, 1000>>]
    /\ probe_out.ret[2][2].config = [lr |-> <<3, 1000>>]
    /\ probe_out.ret \in configure_fit(strategy, 1, probe.parameters,
                                        probe.client_manager)

\* p <= q for rationals of positive denominators
RatLeq(p, q) == p[1] * q[2] <= q[1] * p[2]

\* C30: for a non-empty results list of positive num_examples (and one shape),
\* each element of the parameters aggregate_fit returns lies between the
\* smallest and the largest of the clients' elements at that place, and the loss
\* aggregate_evaluate returns lies between the smallest and the largest client
\* loss, so it is >= 0 when no client loss is negative.
C30_WithinRange ==
    /\ (/\ Applied("aggregate_fit")
        /\ probe.results # <<>>
        /\ SharedShape(probe.results)
        /\ \A j \in DOMAIN probe.results : probe.results[j][2].num_examples > 0) =>
          /\ probe_out.ret.kind = "return"
          /\ \A i \in DOMAIN probe_out.ret.value.tensors :
               \A k \in DOMAIN probe_out.ret.value.tensors[i].bytes :
                  LET e == probe_out.ret.value.tensors[i].bytes[k]
                  IN /\ \E j \in DOMAIN probe.results :
                          RatLeq(<<Element(probe.results, j, i, k), 1>>, e)
                     /\ \E j \in DOMAIN probe.results :
                          RatLeq(e, <<Element(probe.results, j, i, k), 1>>)
    /\ (/\ Applied("aggregate_evaluate")
        /\ probe.results # <<>>
        /\ \A j \in DOMAIN probe.results : probe.results[j][2].num_examples > 0) =>
          /\ probe_out.ret.kind = "return"
          /\ probe_out.ret.value.kind = "loss"
          /\ \E j \in DOMAIN probe.results :
               RatLeq(probe.results[j][2].loss, probe_out.ret.value.value)
          /\ \E j \in DOMAIN probe.results :
               RatLeq(probe_out.ret.value.value, probe.results[j][2].loss)
          /\ (\A j \in DOMAIN probe.results : probe.results[j][2].loss[1] >= 0) =>
               probe_out.ret.value.value[1] >= 0

\* aggregate_fit has averaged the elements 3 and -1, of weights 1 and 3, to 0
C30_Witness ==
    /\ Applied("aggregate_fit")
    /\ Len(probe.results) = 2
    /\ probe.results[1][2].num_examples = 1
    /\ probe.results[2][2].num_examples = 3
    /\ SharedShape(probe.results)
    /\ Element(probe.results, 1, 1, 2) = 3
    /\ Element(probe.results, 2, 1, 2) = -1
    /\ probe_out.ret.kind = "return"
    /\ probe_out.ret.value.tensors[1].bytes[2] = <<0, 1>>

====
